---- MODULE Spec2Model ----
(***************************************************************************)
(* A model of the file-storage layer: the storage strategies (local disk   *)
(* and S3), the StorageFactory registry, FileService and FolderService     *)
(* over the files / folders / folders_closure tables.                      *)
(*                                                                         *)
(* Representation.                                                         *)
(*   - a path or key is a sequence of segments ("a/b" is <<"a","b">>);     *)
(*     the empty sequence is the empty string, which is falsy in           *)
(*     `storageKey || path`, as an absent key is;                          *)
(*   - a Buffer is a record of its content tag and its length in bytes;    *)
(*   - row ids (uuid) are fresh integers 1, 2, ...; NullId is null;        *)
(*   - a folder path '/a/b' is the sequence <<"a","b">> of names.          *)
(***************************************************************************)
EXTENDS Integers, Sequences, FiniteSets, TLC

\* ------------------------------------------------------------------ bounds
MaxFiles == 2          \* File rows ever created
MaxFolders == 2        \* Folder rows ever created (file-service specification)
MaxTreeFolders == 3    \* Folder rows ever created (folder-tree specification)
MaxRaceFolders == 2    \* Folder rows ever created (interleaved moves)

NullId == 0            \* a null / undefined folderId, parentId, targetParentId

VARIABLES
    uploadPath,   \* LocalStorageStrategy.uploadPath (configuration)
    strategies,   \* StorageFactory.strategies: the Map's entries [type, instance], in insertion order
    registeredAt, \* history: kind -> when its entry came into the Map (0: not in it)
    disk,         \* the local filesystem: full path -> Buffer
    bucket,       \* the S3 bucket: key -> Buffer
    files,        \* table files: id -> row
    folders,      \* table folders: id -> row
    closure,      \* table folders_closure: set of <<ancestor, descendant>>
    nextFileId,   \* next generated File id
    nextFolderId, \* next generated Folder id
    procs,        \* in-flight FolderService.move calls (interleaving specification)
    ret           \* what the last completed call did and returned

vars == <<uploadPath, strategies, registeredAt, disk, bucket, files, folders, closure,
          nextFileId, nextFolderId, procs, ret>>

\* ------------------------------------------------------------- input sets
Buffers == {[tag |-> "p", length |-> 1000], [tag |-> "q", length |-> 2000]}
UploadPaths == {<<>>, <<"uploads">>}       \* '.' and './uploads'
DtoFilenames == {<<>>}                     \* dto.filename: absent (a uuid name)
DtoStorageTypes == {"", "aws_s3"}          \* dto.storageType: absent, or a kind
FolderNames == {"Docs", "Reports"}
UuidNames == <<"u1", "u2", "u3", "u4", "u5", "u6", "u7", "u8">>

\* ---------------------------------------------------------------- helpers
Range(s) == {s[i] : i \in DOMAIN s}

RECURSIVE SumSizes(_, _)
SumSizes(rows, ids) ==
    IF ids = {} THEN 0
    ELSE LET i == CHOOSE x \in ids : TRUE
         IN rows[i].size + SumSizes(rows, ids \ {i})

Drop(f, k) == [x \in (DOMAIN f) \ {k} |-> f[x]]
Put(f, k, v) == [x \in (DOMAIN f) \cup {k} |-> IF x = k THEN v ELSE f[x]]

\* path.join's normalisation of a relative path: 'x/..' cancels, a leading
\* '..' stays.
RECURSIVE Normalize(_, _)
Normalize(done, rest) ==
    IF rest = <<>> THEN done
    ELSE IF Head(rest) = ".." /\ done # <<>> /\ done[Len(done)] # ".."
         THEN Normalize(SubSeq(done, 1, Len(done) - 1), Tail(rest))
         ELSE Normalize(Append(done, Head(rest)), Tail(rest))

PathJoin(a, b) == Normalize(<<>>, a \o b)

\* ------------------------------------------------- LocalStorageStrategy
getFullPath(filename) == PathJoin(uploadPath, filename)

\* upload's result for a write that succeeded
LocalUploadResult(file, filename) ==
    [path |-> getFullPath(filename), key |-> <<>>, size |-> file.length]

LocalUploadDisk(d, file, filename) == Put(d, getFullPath(filename), file)

\* delete: unlinkOk is whether fs.unlink succeeds when the file is there.
\* "ok" is {success: true}; "notFound" is {success: false, 'File not found'};
\* "error" is {success: false, error.message}
LocalDeleteOutcome(d, filepath, unlinkOk) ==
    IF getFullPath(filepath) \notin DOMAIN d THEN "notFound"
    ELSE IF unlinkOk THEN "ok" ELSE "error"

LocalDeleteSuccess(d, filepath, unlinkOk) ==
    LocalDeleteOutcome(d, filepath, unlinkOk) = "ok"

LocalDeleteDisk(d, filepath, unlinkOk) ==
    IF LocalDeleteSuccess(d, filepath, unlinkOk)
    THEN Drop(d, getFullPath(filepath))
    ELSE d

LocalExists(d, filepath) == getFullPath(filepath) \in DOMAIN d

\* get: the bytes, or the failure of fs.readFile
LocalGet(d, filepath) ==
    IF getFullPath(filepath) \in DOMAIN d
    THEN [ok |-> TRUE, data |-> d[getFullPath(filepath)]]
    ELSE [ok |-> FALSE, data |-> [tag |-> "", length |-> 0]]

\* --------------------------------------------------------- AWSS3Strategy
S3UploadResult(file, filename) ==
    [path |-> filename, key |-> filename, size |-> file.length]

S3UploadBucket(b, file, filename) == Put(b, filename, file)

\* delete: sendOk is whether the DeleteObject request went through
S3DeleteOutcome(b, key, sendOk) == IF sendOk THEN "ok" ELSE "error"

S3DeleteSuccess(b, key, sendOk) == S3DeleteOutcome(b, key, sendOk) = "ok"

S3DeleteBucket(b, key, sendOk) ==
    IF sendOk /\ key \in DOMAIN b THEN Drop(b, key) ELSE b

\* -------------------------------------------------------- StorageFactory
\* The kinds of the StorageType enum, in the order initializeStrategies looks
\* at them
StorageTypeOrder == <<"local", "aws_s3", "digital_ocean", "linux_folder">>

\* An entry of the strategies Map; the instance initializeStrategies builds
\* for a configured kind is called "configured"
StrategyEntry(type, instance) == [type |-> type, instance |-> instance]

\* initializeStrategies: one entry per configured kind, in the fixed order
initializeStrategies(configs) ==
    LET kinds == SelectSeq(StorageTypeOrder, LAMBDA k : k \in configs)
    IN [i \in 1..Len(kinds) |-> StrategyEntry(kinds[i], "configured")]

\* The history value that goes with a freshly initialized Map: entry i came
\* in at time i
registeredAtOf(st) ==
    [k \in Range(StorageTypeOrder) |->
        IF \E i \in 1..Len(st) : st[i].type = k
        THEN CHOOSE i \in 1..Len(st) : st[i].type = k ELSE 0]

hasStrategy(type) == \E i \in 1..Len(strategies) : strategies[i].type = type

getStrategyThrows(type) == ~hasStrategy(type)

strategyUploadResult(type, file, filename) ==
    IF type = "local" THEN LocalUploadResult(file, filename)
    ELSE S3UploadResult(file, filename)

\* strategy.delete(key): what it reports; ioOk is whether the underlying
\* unlink / DeleteObject request succeeds
strategyDeleteOutcome(type, key, ioOk) ==
    IF type = "local" THEN LocalDeleteOutcome(disk, key, ioOk)
    ELSE S3DeleteOutcome(bucket, key, ioOk)

\* ------------------------------------------------------- repositories
\* Repository.findOne({where: {id}}): soft-deleted rows are left out unless
\* withDeleted is set.
FolderFindOne(fs, id) == id \in DOMAIN fs /\ ~fs[id].deleted
FolderFindOneWithDeleted(fs, id) == id \in DOMAIN fs
FileFindOne(fl, id) == id \in DOMAIN fl /\ ~fl[id].deleted
FileFindOneWithDeleted(fl, id) == id \in DOMAIN fl

FilesOfFolder(fl, folderId) == {i \in DOMAIN fl : fl[i].folderId = folderId}

\* TreeRepository.findDescendants / findAncestors: a join of folders with
\* folders_closure; both include the folder itself (the reflexive pair) and
\* leave soft-deleted rows out.
findDescendants(fs, cl, id) ==
    {d \in DOMAIN fs : <<id, d>> \in cl /\ ~fs[d].deleted}
findAncestors(fs, cl, id) ==
    {a \in DOMAIN fs : <<a, id>> \in cl /\ ~fs[a].deleted}

\* The rows of a set in the order the database returns them: ord lists the
\* ids in that order (the queries state no ORDER BY).
InOrder(ord, S) == SelectSeq(ord, LAMBDA i : i \in S)

Reverse(s) == [i \in 1..Len(s) |-> s[Len(s) + 1 - i]]

\* -------------------------------------------------------- results
Ret(op, id, folderId, err, cause, backend, kind, path, out) ==
    [op |-> op, id |-> id, folderId |-> folderId, err |-> err, cause |-> cause,
     backend |-> backend, kind |-> kind, path |-> path, out |-> out]

\* ------------------------------------------------------------ FileService
\* The SELECT COUNT / COALESCE(SUM(size), 0) ... WHERE folderId = :id AND
\* deletedAt IS NULL of updateFolderStats; parseInt of the decimal strings
\* the driver returns gives the numbers back.
folderStatsQuery(fl, folderId) ==
    LET ids == {i \in DOMAIN fl : fl[i].folderId = folderId /\ ~fl[i].deleted}
    IN <<Cardinality(ids), SumSizes(fl, ids)>>

\* updateFolderStats: the folders table after folderRepository.update(id, ...)
\* lines 597-600: folderRepository.update(folderId, {fileCount, totalSize})
\* with the numbers the query returned
folderStatsUpdate(fs, folderId, stats) ==
    IF folderId \in DOMAIN fs
    THEN [fs EXCEPT ![folderId].fileCount = stats[1],
                    ![folderId].totalSize = stats[2]]
    ELSE fs

updateFolderStats(fl, fs, folderId) ==
    folderStatsUpdate(fs, folderId, folderStatsQuery(fl, folderId))

\* uuidv4(): a name no row and no stored object carries
UsedNames ==
    {files[i].name : i \in DOMAIN files} \cup DOMAIN bucket
        \cup {<<p[Len(p)]>> : p \in {q \in DOMAIN disk : q # <<>>}}
uuidv4 ==
    UuidNames[CHOOSE i \in DOMAIN UuidNames :
                 /\ <<UuidNames[i]>> \notin UsedNames
                 /\ \A j \in 1..(i - 1) : <<UuidNames[j]>> \in UsedNames]

uploadStorageType(dto) ==
    IF dto.storageType = "" THEN "local" ELSE dto.storageType

uploadFilename(dto) ==
    IF dto.filename # <<>> THEN dto.filename ELSE <<uuidv4>>

\* uploadFile, lines 165-172: the folder check
uploadFolderOk(dto) ==
    dto.folderId = NullId \/ FolderFindOne(folders, dto.folderId)

\* uploadFile reaches strategy.upload (line 183)
uploadReachesBackendNoFolderCheck(dto) ==
    hasStrategy(uploadStorageType(dto))
uploadReachesBackend(dto) ==
    uploadFolderOk(dto) /\ hasStrategy(uploadStorageType(dto))

\* uploadFile reaches fileRepository.save (line 205)
uploadSavesRowBeforeWrite(dto, writeOk) ==
    uploadReachesBackend(dto)
uploadSavesRow(dto, writeOk) ==
    uploadReachesBackend(dto) /\ writeOk

uploadCause(dto, writeOk) ==
    IF ~uploadFolderOk(dto) THEN "FolderNotFound"
    ELSE IF getStrategyThrows(uploadStorageType(dto)) THEN "StrategyNotFound"
    ELSE IF ~writeOk THEN "BackendWrite"
    ELSE "none"

UploadFile(file, dto, writeOk) ==
    LET type == uploadStorageType(dto)
        filename == uploadFilename(dto)
        written == uploadReachesBackend(dto) /\ writeOk
        saved == uploadSavesRow(dto, writeOk)
        result == strategyUploadResult(type, file, filename)
        row == [name |-> filename, path |-> result.path, size |-> result.size,
                storageType |-> type, storageKey |-> result.key,
                folderId |-> dto.folderId, deleted |-> FALSE,
                deletedBy |-> ""]
        files1 == IF saved THEN Put(files, nextFileId, row) ELSE files
    IN /\ saved => nextFileId <= MaxFiles
       /\ disk' = IF written /\ type = "local"
                  THEN LocalUploadDisk(disk, file, filename) ELSE disk
       /\ bucket' = IF written /\ type # "local"
                    THEN S3UploadBucket(bucket, file, filename) ELSE bucket
       /\ files' = files1
       /\ nextFileId' = IF saved THEN nextFileId + 1 ELSE nextFileId
       /\ folders' = IF saved /\ dto.folderId # NullId
                     THEN updateFolderStats(files1, folders, dto.folderId)
                     ELSE folders
       /\ ret' = Ret("uploadFile", IF saved THEN nextFileId ELSE NullId,
                     dto.folderId,
                     IF uploadCause(dto, writeOk) = "none" THEN "none"
                     ELSE "StorageOperation",
                     uploadCause(dto, writeOk),
                     IF ~uploadReachesBackend(dto) THEN "none"
                     ELSE IF writeOk THEN "ok" ELSE "failed",
                     type, IF written THEN result.path ELSE <<>>, <<>>)
       /\ UNCHANGED <<uploadPath, strategies, registeredAt, closure, nextFolderId, procs>>

\* hardDelete, line 408: the key handed to strategy.delete
hardDeleteKey(row) ==
    IF row.storageKey # <<>> THEN row.storageKey ELSE row.path

\* hardDelete reaches fileRepository.remove (line 411): the result of
\* strategy.delete is not looked at, only a throw skips the removal
hardDeleteRemovesRow(type, deleteOutcome) == hasStrategy(type)

FileHardDelete(id, ioOk) ==
    IF ~FileFindOneWithDeleted(files, id)
    THEN /\ ret' = Ret("hardDelete", id, NullId, "FileNotFound", "FileNotFound",
                       "none", "", <<>>, <<>>)
         /\ UNCHANGED <<uploadPath, strategies, registeredAt, disk, bucket, files, folders,
                        closure, nextFileId, nextFolderId, procs>>
    ELSE LET file == files[id]
             type == file.storageType
             key == hardDeleteKey(file)
             called == hasStrategy(type)
             outcome == IF called THEN strategyDeleteOutcome(type, key, ioOk)
                        ELSE "none"
             removed == hardDeleteRemovesRow(type, outcome)
             files1 == IF removed THEN Drop(files, id) ELSE files
         IN /\ disk' = IF called /\ type = "local"
                       THEN LocalDeleteDisk(disk, key, ioOk) ELSE disk
            /\ bucket' = IF called /\ type # "local"
                         THEN S3DeleteBucket(bucket, key, ioOk) ELSE bucket
            /\ files' = files1
            /\ folders' = IF removed /\ file.folderId # NullId
                          THEN updateFolderStats(files1, folders, file.folderId)
                          ELSE folders
            /\ ret' = Ret("hardDelete", id, file.folderId,
                          IF called THEN "none" ELSE "StorageOperation",
                          IF called THEN "none" ELSE "StrategyNotFound",
                          outcome, type, file.path, <<>>)
            /\ UNCHANGED <<uploadPath, strategies, registeredAt, closure, nextFileId,
                           nextFolderId, procs>>

\* softDelete: findById leaves soft-deleted rows out, so for those it throws
\* FileNotFoundException before the deletedAt test of line 379
\* softDelete(id, deletedBy): deletedBy ("" when not passed) is assigned to
\* the entity in memory, which is returned (ret.out); the only write is
\* fileRepository.softDelete(id), UPDATE files SET deletedAt = now WHERE id
FileSoftDeleteBy(id, deletedBy) ==
    /\ files' = IF FileFindOne(files, id)
                THEN [files EXCEPT ![id].deleted = TRUE] ELSE files
    /\ ret' = Ret("softDelete", id,
                  IF FileFindOne(files, id) THEN files[id].folderId ELSE NullId,
                  IF FileFindOne(files, id) THEN "none" ELSE "FileNotFound",
                  IF FileFindOne(files, id) THEN "none" ELSE "FileNotFound",
                  "none", "", <<>>,
                  IF FileFindOne(files, id) /\ deletedBy # ""
                  THEN <<deletedBy>> ELSE <<>>)
    /\ UNCHANGED <<uploadPath, strategies, registeredAt, disk, bucket, folders, closure,
                   nextFileId, nextFolderId, procs>>

FileSoftDelete(id) ==
    /\ FileSoftDeleteBy(id, "")
    /\ ret'.op = "softDelete"

FileRestore(id) ==
    /\ files' = IF FileFindOneWithDeleted(files, id)
                THEN [files EXCEPT ![id].deleted = FALSE] ELSE files
    /\ ret' = Ret("restore", id,
                  IF FileFindOneWithDeleted(files, id)
                  THEN files[id].folderId ELSE NullId,
                  IF FileFindOneWithDeleted(files, id)
                  THEN "none" ELSE "FileNotFound",
                  IF FileFindOneWithDeleted(files, id)
                  THEN "none" ELSE "FileNotFound",
                  "none", "", <<>>, <<>>)
    /\ UNCHANGED <<uploadPath, strategies, registeredAt, disk, bucket, folders, closure,
                   nextFileId, nextFolderId, procs>>

\* ---------------------------------------------------------- FolderService
\* The orders in which the database may return n rows
RowOrders(n) ==
    {o \in [1..n -> 1..n] : \A i, j \in 1..n : o[i] = o[j] => i = j}

RetFolder(op, id, target, err) ==
    Ret(op, id, target, err, err, "none", "", <<>>, <<>>)

\* updateFolderPath, lines 286-290: '/' + ancestors.reverse().map(name).join('/')
folderPathOf(fs, cl, folderId, ord) ==
    LET ancestors == InOrder(ord, findAncestors(fs, cl, folderId))
        reversed == Reverse(ancestors)
    IN [i \in 1..Len(reversed) |-> fs[reversed[i]].name]

\* updateFolderPath: the folders table after the call, which saves the
\* folder's path and then calls itself for every descendant but the folder
RECURSIVE updateFolderPath(_, _, _, _)
RECURSIVE updateDescendantPaths(_, _, _, _)
updateDescendantPaths(fs, cl, todo, ord) ==
    IF todo = <<>> THEN fs
    ELSE updateDescendantPaths(updateFolderPath(fs, cl, Head(todo), ord),
                               cl, Tail(todo), ord)
updateFolderPath(fs, cl, folderId, ord) ==
    LET fs1 == [fs EXCEPT ![folderId].path = folderPathOf(fs, cl, folderId, ord)]
        descendants == InOrder(ord, findDescendants(fs1, cl, folderId) \ {folderId})
    IN updateDescendantPaths(fs1, cl, descendants, ord)

\* The folders updateFolderPath(folderId) goes on to call itself for, within
\* n levels of calls
RECURSIVE updateFolderPathCalls(_, _, _, _)
updateFolderPathCalls(fs, cl, from, n) ==
    IF n = 0 THEN {}
    ELSE LET next == UNION {findDescendants(fs, cl, x) \ {x} : x \in from}
         IN next \cup updateFolderPathCalls(fs, cl, next, n - 1)

\* updateFolderPath(folderId) never returns when one of the calls it makes
\* leads to a call for the same folder again (the closure rows form a cycle)
updateFolderPathDiverges(fs, cl, folderId) ==
    LET n == Cardinality(DOMAIN fs)
    IN \E d \in {folderId} \cup updateFolderPathCalls(fs, cl, {folderId}, n) :
          d \in updateFolderPathCalls(fs, cl, {d}, n)

\* The closure rows TreeRepository.save inserts for a new row: the reflexive
\* pair and one pair per ancestor of the parent
closureInsert(cl, id, parentId) ==
    cl \cup {<<id, id>>} \cup {<<p[1], id>> : p \in {q \in cl : q[2] = parentId}}

\* The closure rows after TreeRepository.save of a row whose parent changed:
\* the pairs linking the subtree to the old parent's ancestors go, pairs
\* linking it to the new parent's ancestors come
closureMove(cl, id, oldParent, newParent) ==
    IF oldParent = newParent THEN cl
    ELSE LET subtree == {p[2] : p \in {q \in cl : q[1] = id}}
             oldAnc == {p[1] : p \in {q \in cl : q[2] = oldParent}}
             cl1 == {p \in cl : ~(p[1] \in oldAnc /\ p[2] \in subtree)}
             newAnc == {p[1] : p \in {q \in cl1 : q[2] = newParent}}
         IN cl1 \cup (newAnc \X subtree)

FolderCreate(name, parentId, ord, bound) ==
    IF parentId # NullId /\ ~FolderFindOne(folders, parentId)
    THEN /\ ret' = RetFolder("create", NullId, parentId, "FolderNotFound")
         /\ UNCHANGED <<uploadPath, strategies, registeredAt, disk, bucket, files, folders,
                        closure, nextFileId, nextFolderId, procs>>
    ELSE /\ nextFolderId <= bound
         /\ LET id == nextFolderId
                row == [name |-> name, parentId |-> parentId, deleted |-> FALSE,
                        deletedBy |-> "",
                        path |-> <<>>, fileCount |-> 0, totalSize |-> 0]
                cl1 == closureInsert(closure, id, parentId)
            IN /\ closure' = cl1
               /\ folders' = updateFolderPath(Put(folders, id, row), cl1, id, ord)
               /\ nextFolderId' = id + 1
               /\ ret' = RetFolder("create", id, parentId, "none")
         /\ UNCHANGED <<uploadPath, strategies, registeredAt, disk, bucket, files,
                        nextFileId, procs>>

\* update: Object.assign(folder, dto) and save; the path is not recomputed
FolderUpdate(id, name) ==
    /\ folders' = IF FolderFindOne(folders, id)
                  THEN [folders EXCEPT ![id].name = name] ELSE folders
    /\ ret' = RetFolder("update", id, NullId,
                        IF FolderFindOne(folders, id) THEN "none"
                        ELSE "FolderNotFound")
    /\ UNCHANGED <<uploadPath, strategies, registeredAt, disk, bucket, files, closure,
                   nextFileId, nextFolderId, procs>>

\* move, lines 145-149: the target is the folder or one of its descendants
moveTargetIsSelf(fs, cl, id, target) == target = id
moveIntoOwnSubtree(fs, cl, id, target) ==
    target \in findDescendants(fs, cl, id)

moveError(fs, cl, id, target) ==
    IF ~FolderFindOne(fs, id) THEN "FolderNotFound"
    ELSE IF target = NullId THEN "none"
    ELSE IF ~FolderFindOne(fs, target) THEN "FolderNotFound"
    ELSE IF moveIntoOwnSubtree(fs, cl, id, target) THEN "Cycle"
    ELSE "none"

FolderMove(id, target, ord) ==
    IF moveError(folders, closure, id, target) # "none"
    THEN /\ ret' = RetFolder("move", id, target,
                             moveError(folders, closure, id, target))
         /\ UNCHANGED <<uploadPath, strategies, registeredAt, disk, bucket, files, folders,
                        closure, nextFileId, nextFolderId, procs>>
    ELSE LET cl1 == closureMove(closure, id, folders[id].parentId, target)
             fs1 == [folders EXCEPT ![id].parentId = target]
             hangs == updateFolderPathDiverges(fs1, cl1, id)
         IN /\ closure' = cl1
            /\ folders' = IF hangs THEN fs1 ELSE updateFolderPath(fs1, cl1, id, ord)
            /\ ret' = RetFolder("move", id, target,
                                IF hangs THEN "NoReturn" ELSE "none")
            /\ UNCHANGED <<uploadPath, strategies, registeredAt, disk, bucket, files,
                           nextFileId, nextFolderId, procs>>

\* (a variant whose UPDATE has no WHERE clause)
softDeleteEveryFile(fl, id) ==
    [i \in DOMAIN fl |-> [fl[i] EXCEPT !.deleted = TRUE]]
\* softDelete, lines 174-178: UPDATE files SET deletedAt ... WHERE folderId = :id
softDeleteFilesOfFolder(fl, id) ==
    [i \in DOMAIN fl |->
        IF fl[i].folderId = id THEN [fl[i] EXCEPT !.deleted = TRUE] ELSE fl[i]]

\* softDelete: the folder row, then every File row of the folder in one
\* UPDATE ... WHERE folderId = :id
FolderSoftDeleteBy(id, deletedBy) ==
    IF ~FolderFindOne(folders, id)
    THEN /\ ret' = RetFolder("folderSoftDelete", id, NullId, "FolderNotFound")
         /\ UNCHANGED <<uploadPath, strategies, registeredAt, disk, bucket, files, folders,
                        closure, nextFileId, nextFolderId, procs>>
    ELSE /\ folders' = [folders EXCEPT ![id].deleted = TRUE]
         /\ files' = softDeleteFilesOfFolder(files, id)
         /\ ret' = Ret("folderSoftDelete", id, NullId, "none", "none", "none",
                       "", <<>>,
                       IF deletedBy # "" THEN <<deletedBy>> ELSE <<>>)
         /\ UNCHANGED <<uploadPath, strategies, registeredAt, disk, bucket, closure,
                        nextFileId, nextFolderId, procs>>

FolderSoftDelete(id) ==
    /\ FolderSoftDeleteBy(id, "")
    /\ ret'.op = "folderSoftDelete"

\* restore, lines 247-252: UPDATE files SET deletedAt = NULL WHERE folderId = :id
restoreFilesOfFolder(fl, id) ==
    [i \in DOMAIN fl |->
        IF fl[i].folderId = id THEN [fl[i] EXCEPT !.deleted = FALSE] ELSE fl[i]]

FolderRestore(id) ==
    IF ~FolderFindOneWithDeleted(folders, id)
    THEN /\ ret' = RetFolder("folderRestore", id, NullId, "FolderNotFound")
         /\ UNCHANGED <<uploadPath, strategies, registeredAt, disk, bucket, files, folders,
                        closure, nextFileId, nextFolderId, procs>>
    ELSE /\ folders' = [folders EXCEPT ![id].deleted = FALSE]
         /\ files' = restoreFilesOfFolder(files, id)
         /\ ret' = RetFolder("folderRestore", id, NullId, "none")
         /\ UNCHANGED <<uploadPath, strategies, registeredAt, disk, bucket, closure,
                        nextFileId, nextFolderId, procs>>

\* Repository.remove(folder): the row goes, its closure rows go with it
\* (ON DELETE CASCADE) and files.folderId pointing at it becomes NULL
folderRemove(t, id) ==
    [t EXCEPT
       !.files = [i \in DOMAIN t.files |->
                    IF t.files[i].folderId = id
                    THEN [t.files[i] EXCEPT !.folderId = NullId]
                    ELSE t.files[i]],
       !.folders = Drop(t.folders, id),
       !.closure = {p \in t.closure : p[1] # id /\ p[2] # id},
       !.removed = Append(t.removed, id)]

\* fileRepository.delete({folderId: id}): the rows only
deleteFilesOfFolder(fl, id) ==
    [i \in (DOMAIN fl) \ FilesOfFolder(fl, id) |-> fl[i]]

folderChildren(fs, id) == {c \in DOMAIN fs : fs[c].parentId = id}

\* hardDelete(id, true) on an existing folder: the tables after it
RECURSIVE folderHardDeleteForce(_, _)
RECURSIVE folderHardDeleteChildren(_, _)
folderHardDeleteChildren(t, todo) ==
    IF todo = {} THEN t
    ELSE LET c == CHOOSE x \in todo : TRUE
         IN folderHardDeleteChildren(folderHardDeleteForce(t, c), todo \ {c})
\* (a variant that removes the folder's row first and its children after)
folderHardDeleteForceParentFirst(t, id) ==
    LET t1 == [t EXCEPT !.files = deleteFilesOfFolder(t.files, id)]
    IN folderHardDeleteChildren(folderRemove(t1, id),
                                folderChildren(t1.folders, id))
folderHardDeleteForce(t, id) ==
    LET t1 == [t EXCEPT !.files = deleteFilesOfFolder(t.files, id)]
        t2 == folderHardDeleteChildren(t1, folderChildren(t1.folders, id))
    IN folderRemove(t2, id)

\* (a variant that counts only the non-deleted files and no child folders)
folderHardDeleteErrorLiveFilesOnly(id, force) ==
    IF ~FolderFindOneWithDeleted(folders, id) THEN "FolderNotFound"
    ELSE IF {i \in FilesOfFolder(files, id) : ~files[i].deleted} # {} /\ ~force
         THEN "FolderNotEmpty"
    ELSE "none"
\* hardDelete, lines 188-220: the exception it throws, if any
folderHardDeleteError(id, force) ==
    IF ~FolderFindOneWithDeleted(folders, id) THEN "FolderNotFound"
    ELSE IF FilesOfFolder(files, id) # {} /\ ~force THEN "FolderNotEmpty"
    ELSE IF folderChildren(folders, id) # {} /\ ~force THEN "FolderNotEmpty"
    ELSE "none"

FolderHardDelete(id, force) ==
    LET err == folderHardDeleteError(id, force)
        t == [files |-> files, folders |-> folders, closure |-> closure,
              removed |-> <<>>]
        t1 == IF err # "none" THEN t
              ELSE IF force THEN folderHardDeleteForce(t, id)
              ELSE folderRemove(t, id)
    IN /\ files' = t1.files
       /\ folders' = t1.folders
       /\ closure' = t1.closure
       /\ ret' = RetFolder("folderHardDelete", id, NullId, err)
                    @@ [force |-> force, removed |-> t1.removed]
       /\ UNCHANGED <<uploadPath, strategies, registeredAt, disk, bucket, nextFileId,
                      nextFolderId, procs>>

\* getFolderWithStats: {...folder, fileCount, totalSize} with the two
\* overridden by the live query
getFolderWithStatsCached(fl, fs, id) == <<fs[id].fileCount, fs[id].totalSize>>
getFolderWithStatsResult(fl, fs, id) == folderStatsQuery(fl, id)

GetFolderWithStats(id) ==
    /\ ret' = IF FolderFindOne(folders, id)
              THEN Ret("getFolderWithStats", id, NullId, "none", "none", "none",
                       "", <<>>, getFolderWithStatsResult(files, folders, id))
              ELSE RetFolder("getFolderWithStats", id, NullId, "FolderNotFound")
    /\ UNCHANGED <<uploadPath, strategies, registeredAt, disk, bucket, files, folders,
                   closure, nextFileId, nextFolderId, procs>>

\* ------------------------------------------------------------ specification
\* StorageFactory.initializeStrategies: the configured kinds, local first
\* (here: only local is configured)
InitStrategies == {initializeStrategies({"local"})}

Init ==
    /\ uploadPath \in UploadPaths
    /\ strategies \in InitStrategies
    /\ registeredAt = registeredAtOf(strategies)
    /\ disk = <<>>
    /\ bucket = <<>>
    /\ files = <<>>
    /\ folders = <<>>
    /\ closure = {}
    /\ nextFileId = 1
    /\ nextFolderId = 1
    /\ procs = <<>>
    /\ ret = Ret("init", NullId, NullId, "none", "none", "none", "", <<>>, <<>>)

Next ==
    \/ \E file \in Buffers, filename \in DtoFilenames, folderId \in 0..MaxFolders,
          storageType \in DtoStorageTypes, writeOk \in BOOLEAN :
          UploadFile(file, [filename |-> filename, folderId |-> folderId,
                            storageType |-> storageType], writeOk)
    \/ \E id \in 1..MaxFiles, ioOk \in BOOLEAN : FileHardDelete(id, ioOk)
    \/ \E id \in 1..MaxFiles : FileSoftDelete(id)
    \/ \E id \in 1..MaxFiles : FileRestore(id)
    \/ \E parentId \in 0..MaxFolders :
          FolderCreate("Docs", parentId, [i \in 1..MaxFolders |-> i], MaxFolders)
    \/ \E id \in 1..MaxFolders : FolderSoftDelete(id)
    \/ \E id \in 1..MaxFolders : FolderRestore(id)
    \/ \E id \in 1..MaxFolders, force \in BOOLEAN : FolderHardDelete(id, force)
    \/ \E id \in 1..MaxFolders : GetFolderWithStats(id)

Spec == Init /\ [][Next]_vars

\* The folder tree alone: create, rename, move, delete and restore folders
InitTree ==
    /\ uploadPath = <<"uploads">>
    /\ strategies = initializeStrategies({"local"})
    /\ registeredAt = registeredAtOf(strategies)
    /\ disk = <<>>
    /\ bucket = <<>>
    /\ files = <<>>
    /\ folders = <<>>
    /\ closure = {}
    /\ nextFileId = 1
    /\ nextFolderId = 1
    /\ procs = <<>>
    /\ ret = Ret("init", NullId, NullId, "none", "none", "none", "", <<>>, <<>>)

\* (every folder is named Docs here, so the order of the rows does not show
\* in a path and one order stands for all)
TreeOrder == [i \in 1..MaxTreeFolders |-> i]

NextTree ==
    \/ \E parentId \in 0..MaxTreeFolders :
          FolderCreate("Docs", parentId, TreeOrder, MaxTreeFolders)
    \/ \E id \in 1..MaxTreeFolders : FolderUpdate(id, "Docs")
    \/ \E id \in 1..MaxTreeFolders, target \in 0..MaxTreeFolders :
          FolderMove(id, target, TreeOrder)
    \/ \E id \in 1..MaxTreeFolders : FolderSoftDelete(id)
    \/ \E id \in 1..MaxTreeFolders : FolderRestore(id)
    \/ \E id \in 1..MaxTreeFolders, force \in BOOLEAN : FolderHardDelete(id, force)

SpecTree == InitTree /\ [][NextTree]_vars

\* ------------------------------------------ FolderService.move, interleaved
\* Two callers run move concurrently; a call is suspended at its awaits:
\* after the reads and the descendant check (lines 137-150), and after the
\* save (line 155).
Procs == {1, 2}

MoveBegin(p, id, target) ==
    /\ procs[p].pc = "idle"
    /\ IF moveError(folders, closure, id, target) # "none"
       THEN /\ ret' = RetFolder("move", id, target,
                                moveError(folders, closure, id, target))
            /\ procs' = procs
       ELSE /\ procs' = [procs EXCEPT ![p] = [pc |-> "save", id |-> id,
                                              target |-> target,
                                              path |-> folders[id].path]]
            /\ ret' = ret
    /\ UNCHANGED <<uploadPath, strategies, registeredAt, disk, bucket, files, folders,
                   closure, nextFileId, nextFolderId>>

\* folderRepository.save(folder): the loaded entity with its new parent
MoveSave(p) ==
    /\ procs[p].pc = "save"
    /\ LET id == procs[p].id
           target == procs[p].target
       IN /\ closure' = closureMove(closure, id, folders[id].parentId, target)
          /\ folders' = [folders EXCEPT ![id].parentId = target,
                                        ![id].path = procs[p].path]
    /\ procs' = [procs EXCEPT ![p].pc = "paths"]
    /\ UNCHANGED <<uploadPath, strategies, registeredAt, disk, bucket, files, nextFileId,
                   nextFolderId, ret>>

MovePaths(p, ord) ==
    /\ procs[p].pc = "paths"
    /\ ~updateFolderPathDiverges(folders, closure, procs[p].id)
    /\ folders' = updateFolderPath(folders, closure, procs[p].id, ord)
    /\ procs' = [procs EXCEPT ![p] = [pc |-> "idle", id |-> NullId,
                                      target |-> NullId, path |-> <<>>]]
    /\ ret' = RetFolder("move", procs[p].id, procs[p].target, "none")
    /\ UNCHANGED <<uploadPath, strategies, registeredAt, disk, bucket, files, closure,
                   nextFileId, nextFolderId>>

InitRace ==
    /\ uploadPath = <<"uploads">>
    /\ strategies = initializeStrategies({"local"})
    /\ registeredAt = registeredAtOf(strategies)
    /\ disk = <<>>
    /\ bucket = <<>>
    /\ files = <<>>
    /\ folders = <<>>
    /\ closure = {}
    /\ nextFileId = 1
    /\ nextFolderId = 1
    /\ procs = [p \in Procs |-> [pc |-> "idle", id |-> NullId,
                                 target |-> NullId, path |-> <<>>]]
    /\ ret = Ret("init", NullId, NullId, "none", "none", "none", "", <<>>, <<>>)

RaceOrder == [i \in 1..MaxRaceFolders |-> i]

NextRace ==
    \/ \E parentId \in 0..MaxRaceFolders :
          FolderCreate("Docs", parentId, RaceOrder, MaxRaceFolders)
    \/ \E p \in Procs, id \in 1..MaxRaceFolders, target \in 0..MaxRaceFolders :
          MoveBegin(p, id, target)
    \/ \E p \in Procs : MoveSave(p)
    \/ \E p \in Procs : MovePaths(p, RaceOrder)

SpecRace == InitRace /\ [][NextRace]_vars

\* ----------------------------------------- LocalStorageStrategy on its own
LocalFilenames == {<<"a">>, <<"d", "a">>, <<"uploads", "a">>}
LocalArgs == LocalFilenames \cup {getFullPath(n) : n \in LocalFilenames}
NoBuffer == [tag |-> "", length |-> 0]

RetLocal(op, arg, ok, path, data) ==
    [op |-> op, arg |-> arg, ok |-> ok, path |-> path, data |-> data]

\* upload(file, filename); writeOk is whether mkdir / writeFile / stat succeed
LocalUpload(file, filename, writeOk) ==
    /\ disk' = IF writeOk THEN LocalUploadDisk(disk, file, filename) ELSE disk
    /\ ret' = RetLocal("upload", filename, writeOk,
                       IF writeOk THEN LocalUploadResult(file, filename).path
                       ELSE <<>>, file)
    /\ UNCHANGED <<uploadPath, strategies, registeredAt, bucket, files, folders, closure,
                   nextFileId, nextFolderId, procs>>

LocalGetCall(filepath) ==
    /\ ret' = RetLocal("get", filepath, LocalGet(disk, filepath).ok, <<>>,
                       LocalGet(disk, filepath).data)
    /\ UNCHANGED <<uploadPath, strategies, registeredAt, disk, bucket, files, folders,
                   closure, nextFileId, nextFolderId, procs>>

LocalDelete(filepath, unlinkOk) ==
    /\ disk' = LocalDeleteDisk(disk, filepath, unlinkOk)
    /\ ret' = RetLocal("delete", filepath,
                       LocalDeleteSuccess(disk, filepath, unlinkOk), <<>>,
                       NoBuffer)
    /\ UNCHANGED <<uploadPath, strategies, registeredAt, bucket, files, folders, closure,
                   nextFileId, nextFolderId, procs>>

InitLocal ==
    /\ uploadPath \in UploadPaths
    /\ strategies = initializeStrategies({"local"})
    /\ registeredAt = registeredAtOf(strategies)
    /\ disk = <<>>
    /\ bucket = <<>>
    /\ files = <<>>
    /\ folders = <<>>
    /\ closure = {}
    /\ nextFileId = 1
    /\ nextFolderId = 1
    /\ procs = <<>>
    /\ ret = RetLocal("init", <<>>, TRUE, <<>>, NoBuffer)

NextLocal ==
    \/ \E file \in Buffers, filename \in LocalFilenames, writeOk \in BOOLEAN :
          LocalUpload(file, filename, writeOk)
    \/ \E filepath \in LocalArgs : LocalGetCall(filepath)
    \/ \E filepath \in LocalArgs, unlinkOk \in BOOLEAN :
          LocalDelete(filepath, unlinkOk)

SpecLocal == InitLocal /\ [][NextLocal]_vars

\* ------------------------------------------------------------------ claims
\* Whether the object a File row stands for is in its backend
ObjectStored(row, d, b) ==
    IF row.storageType = "local" THEN row.path \in DOMAIN d
    ELSE row.storageKey \in DOMAIN b

\* C1: whenever FileService.hardDelete found the row and the backend delete
\* did not succeed (strategy.delete returned success=false, or getStrategy
\* threw), the File row still exists when hardDelete ends.
C1_RowKeptWhenBackendDeleteFails ==
    (ret.op = "hardDelete" /\ ret.cause # "FileNotFound" /\ ret.backend # "ok")
        => ret.id \in DOMAIN files

\* C2: after hardDelete returned without error for a row uploadFile stored
\* through the local backend (and unlink itself did not fail), the row is gone
\* and the object the upload wrote is gone.
C2_HardDeleteRemovesUploadedObject ==
    (ret.op = "hardDelete" /\ ret.err = "none" /\ ret.kind = "local"
        /\ ret.backend # "error")
        => (ret.id \notin DOMAIN files /\ ret.path \notin DOMAIN disk)

\* C3: an uploadFile whose target folder is missing, whose backend kind is not
\* registered, or whose backend upload failed, fails and leaves the set of
\* File rows as it was.
C3_FailedUploadCreatesNoRow ==
    [][(ret'.op = "uploadFile"
          /\ \/ (ret'.folderId # NullId
                    /\ ~(ret'.folderId \in DOMAIN folders
                            /\ ~folders[ret'.folderId].deleted))
             \/ \A i \in DOMAIN strategies : strategies[i].type # ret'.kind
             \/ ret'.backend = "failed")
        => (ret'.err # "none" /\ files' = files)]_vars

C3_Witness ==
    /\ ret.op = "uploadFile"
    /\ ret.backend = "failed"
    /\ ret.err = "StorageOperation"
    /\ DOMAIN files # {}

\* C4: an uploadFile with a non-null folderId that references no existing
\* non-deleted Folder never invokes the backend's upload and writes no bytes.
C4_NoWriteForInvalidFolder ==
    [][(ret'.op = "uploadFile" /\ ret'.folderId # NullId
          /\ ~(ret'.folderId \in DOMAIN folders
                  /\ ~folders[ret'.folderId].deleted))
        => (ret'.backend = "none" /\ disk' = disk /\ bucket' = bucket)]_vars

C4_Witness ==
    /\ ret.op = "uploadFile"
    /\ ret.cause = "FolderNotFound"
    /\ ret.folderId \in DOMAIN folders
    /\ folders[ret.folderId].deleted

\* C5: FolderService.hardDelete(id, force=true) on a folder that holds files
\* succeeds, and afterwards no file that was in the folder has its row or its
\* backend object.
C5_ForceHardDeleteRemovesFilesAndObjects ==
    [][(ret'.op = "folderHardDelete" /\ ret'.force
          /\ ret'.id \in DOMAIN folders
          /\ FilesOfFolder(files, ret'.id) # {})
        => (ret'.err = "none"
              /\ \A f \in FilesOfFolder(files, ret'.id) :
                    /\ f \notin DOMAIN files'
                    /\ ~ObjectStored(files[f], disk', bucket'))]_vars

\* C6: for the local backend, get() called with the path a successful upload
\* returned gives back exactly the uploaded bytes.
C6_UploadThenGetReturnsBytes ==
    [][(ret.op = "upload" /\ ret.ok /\ ret'.op = "get" /\ ret'.arg = ret.path)
        => (ret'.ok /\ ret'.data = ret.data)]_vars

\* The count and the sum of sizes of the non-deleted Files of a folder, by
\* going through the File ids one by one
RECURSIVE EnumerateFolder(_, _, _)
EnumerateFolder(folderId, upTo, acc) ==
    IF upTo = 0 THEN acc
    ELSE IF upTo \in DOMAIN files /\ files[upTo].folderId = folderId
            /\ ~files[upTo].deleted
         THEN EnumerateFolder(folderId, upTo - 1,
                              <<acc[1] + 1, acc[2] + files[upTo].size>>)
         ELSE EnumerateFolder(folderId, upTo - 1, acc)

LiveStats(folderId) == EnumerateFolder(folderId, nextFileId - 1, <<0, 0>>)

\* C7: after every completed uploadFile, file softDelete, file restore, file
\* hardDelete, folder softDelete and folder restore, the cached fileCount and
\* totalSize of the folder concerned equal the count and the size sum of its
\* non-deleted Files.
C7_CachedStatsFollowFiles ==
    LET f == IF ret.op \in {"folderSoftDelete", "folderRestore"}
             THEN ret.id ELSE ret.folderId
    IN (ret.op \in {"uploadFile", "softDelete", "restore", "hardDelete",
                    "folderSoftDelete", "folderRestore"}
           /\ ret.err = "none" /\ f \in DOMAIN folders)
        => <<folders[f].fileCount, folders[f].totalSize>> = LiveStats(f)

\* C8: for every existing folder F, getFolderWithStats(F) succeeds and returns
\* the count and the size sum found by enumerating the non-deleted Files with
\* folderId = F.
C8_StatsEqualEnumeration ==
    (ret.op = "getFolderWithStats" /\ ret.id \in DOMAIN folders
        /\ ~folders[ret.id].deleted)
        => (ret.err = "none" /\ ret.out = LiveStats(ret.id))

\* uploads of 1000 and 2000 bytes, the first soft-deleted: {1, 2000}
C8_Witness ==
    /\ ret.op = "getFolderWithStats"
    /\ ret.err = "none"
    /\ ret.out = <<1, 2000>>
    /\ \E i \in DOMAIN files :
          files[i].folderId = ret.id /\ files[i].deleted /\ files[i].size = 1000

\* b is a or lies below a, following parentId upwards from b
RECURSIVE ParentChainReaches(_, _, _, _)
ParentChainReaches(fs, a, b, fuel) ==
    \/ b = a
    \/ /\ fuel > 0
       /\ b \in DOMAIN fs
       /\ fs[b].parentId # NullId
       /\ ParentChainReaches(fs, a, fs[b].parentId, fuel - 1)

InSubtree(fs, a, b) == ParentChainReaches(fs, a, b, Cardinality(DOMAIN fs))

\* C9: for folders A and B with B = A or B a descendant of A, move(A, B) fails
\* and leaves every parentId, closure pair and path as it was; the failure is
\* the cycle error whenever findById returns both folders (for a soft-deleted
\* one it is FolderNotFoundException).
C9_MoveIntoOwnSubtreeFails ==
    [][(ret'.op = "move"
          /\ ret'.id \in DOMAIN folders /\ ret'.folderId \in DOMAIN folders
          /\ InSubtree(folders, ret'.id, ret'.folderId))
        => /\ ret'.err \in {"Cycle", "FolderNotFound"}
           /\ (~folders[ret'.id].deleted /\ ~folders[ret'.folderId].deleted)
                 => ret'.err = "Cycle"
           /\ folders' = folders
           /\ closure' = closure]_vars

\* move(A, grandchild of A) was refused
C9_Witness ==
    /\ ret.op = "move"
    /\ ret.err = "Cycle"
    /\ ret.folderId \in DOMAIN folders
    /\ folders[ret.folderId].parentId \in DOMAIN folders
    /\ folders[folders[ret.folderId].parentId].parentId = ret.id

\* C10: in every reachable state no folder is its own proper ancestor, also
\* when two moves interleave between their descendant check and their save.
C10_ParentRelationAcyclic ==
    \A f \in DOMAIN folders :
        folders[f].parentId = NullId
            \/ ~InSubtree(folders, f, folders[f].parentId)

\* --------------------------------------- folder paths: create, rename, move
MaxPathFolders == 3

InitPath ==
    /\ uploadPath = <<"uploads">>
    /\ strategies = initializeStrategies({"local"})
    /\ registeredAt = registeredAtOf(strategies)
    /\ disk = <<>>
    /\ bucket = <<>>
    /\ files = <<>>
    /\ folders = <<>>
    /\ closure = {}
    /\ nextFileId = 1
    /\ nextFolderId = 1
    /\ procs = <<>>
    /\ ret = Ret("init", NullId, NullId, "none", "none", "none", "", <<>>, <<>>)

\* findAncestors and findDescendants state no ORDER BY: each call of an
\* operation may see the rows in any order
NextPath ==
    \/ \E name \in FolderNames, parentId \in 0..MaxPathFolders,
          ord \in RowOrders(MaxPathFolders) :
          FolderCreate(name, parentId, ord, MaxPathFolders)
    \/ \E id \in 1..MaxPathFolders, name \in FolderNames : FolderUpdate(id, name)
    \/ \E id \in 1..MaxPathFolders, target \in 0..MaxPathFolders,
          ord \in RowOrders(MaxPathFolders) :
          FolderMove(id, target, ord)

SpecPath == InitPath /\ [][NextPath]_vars

\* The names on the parentId chain of a folder, from the root down to it
RECURSIVE NamesFromRoot(_, _, _)
NamesFromRoot(fs, id, fuel) ==
    IF id = NullId \/ id \notin DOMAIN fs \/ fuel = 0 THEN <<>>
    ELSE Append(NamesFromRoot(fs, fs[id].parentId, fuel - 1), fs[id].name)

PathByParents(fs, id) == NamesFromRoot(fs, id, Cardinality(DOMAIN fs))

\* C11: after any sequence of completed folder create, update (rename) and
\* move operations, the persisted path of every folder is '/' followed by the
\* names of its ancestors from the root down to itself, joined by '/'.
C11_PathsFollowAncestorNames ==
    \A f \in DOMAIN folders : folders[f].path = PathByParents(folders, f)

\* C12: after a successful move(id, target) the persisted path of the moved
\* folder and of each of its descendants, at any depth, is the path of its new
\* ancestor chain.
C12_MoveRewritesSubtreePaths ==
    [][(ret'.op = "move" /\ ret'.err = "none")
        => \A d \in DOMAIN folders' :
              InSubtree(folders', ret'.id, d)
                  => folders'[d].path = PathByParents(folders', d)]_vars

\* C13: hardDelete(id, force=false) on a folder that has at least one File row
\* (soft-deleted ones count) or at least one child folder fails with the
\* folder-not-empty error and removes no File row and no Folder row.
C13_NonForcedHardDeleteKeepsNonEmptyFolder ==
    [][(ret'.op = "folderHardDelete" /\ ~ret'.force
          /\ ret'.id \in DOMAIN folders
          /\ \/ \E i \in DOMAIN files : files[i].folderId = ret'.id
             \/ \E c \in DOMAIN folders : folders[c].parentId = ret'.id)
        => /\ ret'.err = "FolderNotEmpty"
           /\ files' = files
           /\ folders' = folders
           /\ closure' = closure]_vars

\* refused for a folder whose only file is soft-deleted
C13_Witness ==
    /\ ret.op = "folderHardDelete"
    /\ ~ret.force
    /\ ret.err = "FolderNotEmpty"
    /\ \E i \in DOMAIN files : files[i].folderId = ret.id
    /\ \A i \in DOMAIN files : files[i].folderId = ret.id => files[i].deleted
    /\ \A c \in DOMAIN folders : folders[c].parentId # ret.id

\* C14: a completed FolderService.softDelete(id) marks the folder deleted and
\* every File with folderId = id deleted; every File of another folder (child
\* folders included) and every other folder keeps its state.
C14_FolderSoftDeleteCascadesToOwnFiles ==
    [][(ret'.op = "folderSoftDelete" /\ ret'.err = "none")
        => /\ folders' = [folders EXCEPT ![ret'.id].deleted = TRUE]
           /\ DOMAIN files' = DOMAIN files
           /\ \A i \in DOMAIN files :
                 IF files[i].folderId = ret'.id
                 THEN files'[i] = [files[i] EXCEPT !.deleted = TRUE]
                 ELSE files'[i] = files[i]]_vars

\* the folder had a live file, and a child folder's live file stays live
C14_Witness ==
    /\ ret.op = "folderSoftDelete"
    /\ ret.err = "none"
    /\ folders[ret.id].deleted
    /\ \E i \in DOMAIN files : files[i].folderId = ret.id /\ files[i].deleted
    /\ \E i \in DOMAIN files :
          /\ files[i].folderId \in DOMAIN folders
          /\ folders[files[i].folderId].parentId = ret.id
          /\ ~files[i].deleted

\* ------------------------------------------------- StorageFactory registry
MaxRegistrations == 4

FactoryTypes == {"local", "aws_s3", "digital_ocean"}
FactoryInstances == {"x", "y"}
FactoryConfigs == SUBSET {"local", "aws_s3"}

\* Map.prototype.get / set / delete on the entries in insertion order: set
\* on a present key replaces the value where it stands, set on an absent key
\* appends, delete takes the entry out
mapGet(st, type) ==
    LET hits == SelectSeq(st, LAMBDA e : e.type = type)
    IN IF hits = <<>> THEN "undefined" ELSE hits[1].instance

\* (a Map whose set moves a present key to the end)
mapSetMovesToEnd(st, type, instance) ==
    Append(SelectSeq(st, LAMBDA e : e.type # type), StrategyEntry(type, instance))
mapSet(st, type, instance) ==
    IF \E i \in 1..Len(st) : st[i].type = type
    THEN [i \in 1..Len(st) |->
            IF st[i].type = type THEN StrategyEntry(type, instance) ELSE st[i]]
    ELSE Append(st, StrategyEntry(type, instance))

mapDelete(st, type) == SelectSeq(st, LAMBDA e : e.type # type)

\* What a StorageFactory call threw (class, message, the kind the message
\* names) or returned (the instance and the kind it is registered under)
RetFactory(op, type, threw, message, names, instance, kind) ==
    [op |-> op, type |-> type, threw |-> threw, message |-> message,
     names |-> names, instance |-> instance, kind |-> kind]

\* The latest time in the history
LastRegistration ==
    CHOOSE t \in 0..MaxRegistrations :
        /\ \A k \in DOMAIN registeredAt : registeredAt[k] <= t
        /\ t = 0 \/ \E k \in DOMAIN registeredAt : registeredAt[k] = t

RegisterStrategy(type, instance) ==
    /\ hasStrategy(type) \/ LastRegistration < MaxRegistrations
    /\ strategies' = mapSet(strategies, type, instance)
    /\ registeredAt' = IF hasStrategy(type) THEN registeredAt
                       ELSE [registeredAt EXCEPT ![type] = LastRegistration + 1]
    /\ ret' = RetFactory("registerStrategy", type, "none", "", "", instance, type)
    /\ UNCHANGED <<uploadPath, disk, bucket, files, folders, closure,
                   nextFileId, nextFolderId, procs>>

UnregisterStrategy(type) ==
    /\ strategies' = mapDelete(strategies, type)
    /\ registeredAt' = [registeredAt EXCEPT ![type] = 0]
    /\ ret' = RetFactory("unregisterStrategy", type, "none", "", "", "", "")
    /\ UNCHANGED <<uploadPath, disk, bucket, files, folders, closure,
                   nextFileId, nextFolderId, procs>>

\* getStrategy: new Error(`Storage strategy not found for type: ${type}. ...`)
\* when the Map has no entry for the kind
GetStrategy(type) ==
    /\ ret' = IF mapGet(strategies, type) = "undefined"
              THEN RetFactory("getStrategy", type, "Error", "StrategyNotFound",
                              type, "", "")
              ELSE RetFactory("getStrategy", type, "none", "", "",
                              mapGet(strategies, type), type)
    /\ UNCHANGED <<uploadPath, strategies, registeredAt, disk, bucket, files,
                   folders, closure, nextFileId, nextFolderId, procs>>

\* getDefaultStrategy: strategies.values().next().value, or
\* new Error('No storage strategies available')
GetDefaultStrategy ==
    /\ ret' = IF strategies = <<>>
              THEN RetFactory("getDefaultStrategy", "", "Error",
                              "NoStrategiesAvailable", "", "", "")
              ELSE RetFactory("getDefaultStrategy", "", "none", "", "",
                              strategies[1].instance, strategies[1].type)
    /\ UNCHANGED <<uploadPath, strategies, registeredAt, disk, bucket, files,
                   folders, closure, nextFileId, nextFolderId, procs>>

InitFactory ==
    /\ uploadPath = <<"uploads">>
    /\ strategies \in {initializeStrategies(c) : c \in FactoryConfigs}
    /\ registeredAt = registeredAtOf(strategies)
    /\ disk = <<>>
    /\ bucket = <<>>
    /\ files = <<>>
    /\ folders = <<>>
    /\ closure = {}
    /\ nextFileId = 1
    /\ nextFolderId = 1
    /\ procs = <<>>
    /\ ret = RetFactory("init", "", "none", "", "", "", "")

NextFactory ==
    \/ \E type \in FactoryTypes, instance \in FactoryInstances :
          RegisterStrategy(type, instance)
    \/ \E type \in FactoryTypes : UnregisterStrategy(type)
    \/ \E type \in FactoryTypes : GetStrategy(type)
    \/ GetDefaultStrategy

SpecFactory == InitFactory /\ [][NextFactory]_vars

\* C15: getStrategy(kind) fails with the not-configured error
\* (StorageNotConfiguredException) naming the kind whenever the kind has no
\* entry in the registry, and returns the registered instance otherwise.
C15_GetStrategyNotConfiguredError ==
    ret.op = "getStrategy"
        => IF registeredAt[ret.type] = 0
           THEN ret.threw = "StorageNotConfiguredException" /\ ret.names = ret.type
           ELSE ret.threw = "none" /\ ret.instance = mapGet(strategies, ret.type)

\* The kind that has been in the registry longest
OldestKind ==
    CHOOSE k \in DOMAIN registeredAt :
        /\ registeredAt[k] > 0
        /\ \A j \in DOMAIN registeredAt :
              registeredAt[j] > 0 => registeredAt[k] <= registeredAt[j]

\* C16: getDefaultStrategy() fails with the no-strategies error exactly when
\* no kind is in the registry, and otherwise returns the instance of the kind
\* that has been in the registry longest: the instance most recently
\* registered under that kind.
C16_DefaultIsLongestRegistered ==
    [][ret'.op = "getDefaultStrategy"
        => IF \A k \in DOMAIN registeredAt : registeredAt[k] = 0
           THEN ret'.threw # "none" /\ ret'.message = "NoStrategiesAvailable"
           ELSE /\ ret'.threw = "none"
                /\ ret'.kind = OldestKind
                /\ (ret.op = "registerStrategy" /\ ret.type = OldestKind)
                      => ret'.instance = ret.instance]_vars

\* local was unregistered and registered again, so aws_s3 is now the oldest
C16_Witness ==
    /\ ret.op = "getDefaultStrategy"
    /\ ret.kind = "aws_s3"
    /\ registeredAt["aws_s3"] > 0
    /\ registeredAt["local"] > registeredAt["aws_s3"]

\* ------------------------- FileService on a module configured for S3 only
\* FileUploadModuleConfig: storage = {aws_s3: ...}, defaultStorageType = aws_s3.
\* StorageFactory gets the storage map; FileService reads no default from the
\* configuration.
defaultStorageType == "aws_s3"

InitDefault ==
    /\ uploadPath = <<"uploads">>
    /\ strategies = initializeStrategies({defaultStorageType})
    /\ registeredAt = registeredAtOf(strategies)
    /\ disk = <<>>
    /\ bucket = <<>>
    /\ files = <<>>
    /\ folders = <<>>
    /\ closure = {}
    /\ nextFileId = 1
    /\ nextFolderId = 1
    /\ procs = <<>>
    /\ ret = Ret("init", NullId, NullId, "none", "none", "none", "", <<>>, <<>>)

NextDefault ==
    \/ \E file \in Buffers, storageType \in {"", defaultStorageType},
          writeOk \in BOOLEAN :
          UploadFile(file, [filename |-> <<>>, folderId |-> NullId,
                            storageType |-> storageType], writeOk)
    \/ \E id \in 1..MaxFiles, ioOk \in BOOLEAN : FileHardDelete(id, ioOk)
    \/ \E id \in 1..MaxFiles : FileSoftDelete(id)
    \/ \E id \in 1..MaxFiles : FileRestore(id)

SpecDefault == InitDefault /\ [][NextDefault]_vars

\* C17: with only a non-local kind configured and set as defaultStorageType,
\* an uploadFile without storageType whose backend write works succeeds and
\* the File row records the default kind.
C17_UploadUsesConfiguredDefault ==
    [][\A file \in Buffers :
          UploadFile(file, [filename |-> <<>>, folderId |-> NullId,
                            storageType |-> ""], TRUE)
            => /\ ret'.err = "none"
               /\ ret'.id \in DOMAIN files'
               /\ files'[ret'.id].storageType = defaultStorageType]_vars

\* ------------------------------------------- FileService batch operations
MaxBatch == 2

\* The tables and stores one FileService call works on, as a value, so that
\* the calls a batch makes one after the other can be chained
tablesNow ==
    [files |-> files, folders |-> folders, disk |-> disk, bucket |-> bucket,
     nextFileId |-> nextFileId]

usedNamesIn(t) ==
    {t.files[i].name : i \in DOMAIN t.files} \cup DOMAIN t.bucket
        \cup {<<p[Len(p)]>> : p \in {q \in DOMAIN t.disk : q # <<>>}}
uuidv4In(t) ==
    UuidNames[CHOOSE i \in DOMAIN UuidNames :
                 /\ <<UuidNames[i]>> \notin usedNamesIn(t)
                 /\ \A j \in 1..(i - 1) : <<UuidNames[j]>> \in usedNamesIn(t)]

\* uploadFile on the tables t: the tables after it, whether it returned (ok)
\* or threw, and the id of the row it returned
uploadFileIn(t, file, dto, writeOk) ==
    LET type == uploadStorageType(dto)
        filename == IF dto.filename # <<>> THEN dto.filename ELSE <<uuidv4In(t)>>
        saved == uploadSavesRow(dto, writeOk)
        result == strategyUploadResult(type, file, filename)
        row == [name |-> filename, path |-> result.path, size |-> result.size,
                storageType |-> type, storageKey |-> result.key,
                folderId |-> dto.folderId, deleted |-> FALSE,
                deletedBy |-> ""]
        files1 == Put(t.files, t.nextFileId, row)
    IN IF ~saved THEN [t |-> t, ok |-> FALSE, id |-> NullId]
       ELSE [t |-> [files |-> files1,
                    folders |-> IF dto.folderId # NullId
                                THEN updateFolderStats(files1, t.folders, dto.folderId)
                                ELSE t.folders,
                    disk |-> IF type = "local"
                             THEN LocalUploadDisk(t.disk, file, filename)
                             ELSE t.disk,
                    bucket |-> IF type # "local"
                               THEN S3UploadBucket(t.bucket, file, filename)
                               ELSE t.bucket,
                    nextFileId |-> t.nextFileId + 1],
             ok |-> TRUE, id |-> t.nextFileId]

softDeleteIn(t, id) ==
    IF FileFindOne(t.files, id)
    THEN [t |-> [t EXCEPT !.files[id].deleted = TRUE], ok |-> TRUE, id |-> id]
    ELSE [t |-> t, ok |-> FALSE, id |-> id]

restoreIn(t, id) ==
    IF FileFindOneWithDeleted(t.files, id)
    THEN [t |-> [t EXCEPT !.files[id].deleted = FALSE], ok |-> TRUE, id |-> id]
    ELSE [t |-> t, ok |-> FALSE, id |-> id]

hardDeleteIn(t, id, ioOk) ==
    IF ~FileFindOneWithDeleted(t.files, id) \/ ~hasStrategy(t.files[id].storageType)
    THEN [t |-> t, ok |-> FALSE, id |-> id]
    ELSE LET file == t.files[id]
             key == hardDeleteKey(file)
             files1 == Drop(t.files, id)
         IN [t |-> [files |-> files1,
                    folders |-> IF file.folderId # NullId
                                THEN updateFolderStats(files1, t.folders, file.folderId)
                                ELSE t.folders,
                    disk |-> IF file.storageType = "local"
                             THEN LocalDeleteDisk(t.disk, key, ioOk) ELSE t.disk,
                    bucket |-> IF file.storageType # "local"
                               THEN S3DeleteBucket(t.bucket, key, ioOk) ELSE t.bucket,
                    nextFileId |-> t.nextFileId],
             ok |-> TRUE, id |-> id]

\* updateMetadata: findById, Object.assign(file, updates), save
updateMetadataIn(t, id, updates) ==
    IF FileFindOne(t.files, id)
    THEN [t |-> [t EXCEPT !.files[id] = updates @@ @], ok |-> TRUE, id |-> id]
    ELSE [t |-> t, ok |-> FALSE, id |-> id]

\* The call a batch operation makes for one input item
batchItem(op, t, item, arg) ==
    CASE op = "uploadMultiple" -> uploadFileIn(t, item.file, arg, item.ioOk)
      [] op = "bulkSoftDelete" -> softDeleteIn(t, item.id)
      [] op = "bulkHardDelete" -> hardDeleteIn(t, item.id, item.ioOk)
      [] op = "bulkRestore" -> restoreIn(t, item.id)
      [] op = "bulkUpdateMetadata" -> updateMetadataIn(t, item.id, arg)

\* (a loop that gives up at the first item that throws)
batchGoesOnOnlyAfterSuccess(ok) == ok
\* the try/catch is inside the for loop: the loop goes on after a catch
batchGoesOnAfter(ok) == TRUE

\* for (const item of items) { try { ... push to successful } catch { ...
\* push to failed } }: acc is the tables and the results object so far; at is
\* the position of the item in the input
RECURSIVE batchLoop(_, _, _, _, _)
batchLoop(op, items, arg, i, acc) ==
    IF i > Len(items) THEN acc
    ELSE LET r == batchItem(op, acc.t, items[i], arg)
             acc1 == IF r.ok
                     THEN [acc EXCEPT !.t = r.t,
                                      !.successful = Append(@, [at |-> i, id |-> r.id]),
                                      !.successCount = @ + 1]
                     ELSE [acc EXCEPT !.failed = Append(@, [at |-> i, id |-> r.id]),
                                      !.failureCount = @ + 1]
         IN IF batchGoesOnAfter(r.ok) THEN batchLoop(op, items, arg, i + 1, acc1)
            ELSE acc1

batchResult(op, items, arg) ==
    batchLoop(op, items, arg, 1,
              [t |-> tablesNow, successful |-> <<>>, failed |-> <<>>,
               total |-> Len(items), successCount |-> 0, failureCount |-> 0])

\* uploadMultiple returns {successful, failed}; the bulk operations return
\* BulkOperationResultDto with total, successCount and failureCount as well
RetBatch(op, items, r) ==
    [op |-> op, input |-> items, threw |-> FALSE,
     successful |-> r.successful, failed |-> r.failed,
     total |-> IF op = "uploadMultiple" THEN -1 ELSE r.total,
     successCount |-> IF op = "uploadMultiple" THEN -1 ELSE r.successCount,
     failureCount |-> IF op = "uploadMultiple" THEN -1 ELSE r.failureCount]

Batch(op, items, arg) ==
    LET r == batchResult(op, items, arg)
    IN /\ r.t.nextFileId <= MaxFiles + 1
       /\ files' = r.t.files
       /\ folders' = r.t.folders
       /\ disk' = r.t.disk
       /\ bucket' = r.t.bucket
       /\ nextFileId' = r.t.nextFileId
       /\ ret' = RetBatch(op, items, r)
       /\ UNCHANGED <<uploadPath, strategies, registeredAt, closure,
                      nextFolderId, procs>>

SeqsUpTo(S, n) == UNION {[1..k -> S] : k \in 0..n}

BatchUploads == SeqsUpTo([file : Buffers, ioOk : BOOLEAN], MaxBatch)
BatchIds == SeqsUpTo([id : 1..MaxFiles, ioOk : {TRUE}], MaxBatch)
BatchDeletes == SeqsUpTo([id : 1..MaxFiles, ioOk : BOOLEAN], MaxBatch)
BatchUpdates == {[description |-> "d"]}

InitBatch ==
    /\ uploadPath = <<>>
    /\ strategies = initializeStrategies({"local"})
    /\ registeredAt = registeredAtOf(strategies)
    /\ disk = <<>>
    /\ bucket = <<>>
    /\ files = <<>>
    /\ folders = <<>>
    /\ closure = {}
    /\ nextFileId = 1
    /\ nextFolderId = 1
    /\ procs = <<>>
    /\ ret = RetBatch("init", <<>>,
                      [successful |-> <<>>, failed |-> <<>>, total |-> 0,
                       successCount |-> 0, failureCount |-> 0])

UploadMultiple(items, dto) ==
    /\ Batch("uploadMultiple", items, dto)
    /\ ret'.op = "uploadMultiple"
BulkSoftDelete(items) ==
    /\ Batch("bulkSoftDelete", items, <<>>)
    /\ ret'.op = "bulkSoftDelete"
BulkHardDelete(items) ==
    /\ Batch("bulkHardDelete", items, <<>>)
    /\ ret'.op = "bulkHardDelete"
BulkRestore(items) ==
    /\ Batch("bulkRestore", items, <<>>)
    /\ ret'.op = "bulkRestore"
BulkUpdateMetadata(items, updates) ==
    /\ Batch("bulkUpdateMetadata", items, updates)
    /\ ret'.op = "bulkUpdateMetadata"

NextBatch ==
    \/ \E items \in BatchUploads, folderId \in 0..1 :
          UploadMultiple(items, [filename |-> <<>>, folderId |-> folderId,
                                 storageType |-> ""])
    \/ \E items \in BatchIds : BulkSoftDelete(items)
    \/ \E items \in BatchDeletes : BulkHardDelete(items)
    \/ \E items \in BatchIds : BulkRestore(items)
    \/ \E items \in BatchIds, updates \in BatchUpdates :
          BulkUpdateMetadata(items, updates)

SpecBatch == InitBatch /\ [][NextBatch]_vars

BatchOps ==
    {"uploadMultiple", "bulkSoftDelete", "bulkHardDelete", "bulkRestore",
     "bulkUpdateMetadata"}

\* C18: every batch operation returns without throwing, and every input item
\* (by position) is reported in exactly one of successful / failed, so that
\* the two lists together have as many entries as there are inputs and, for
\* the bulk operations, successCount + failureCount = total = number of inputs.
C18_BatchReportsEveryItemOnce ==
    ret.op \in BatchOps
        => LET n == Len(ret.input)
               ok == {ret.successful[j].at : j \in 1..Len(ret.successful)}
               ko == {ret.failed[j].at : j \in 1..Len(ret.failed)}
           IN /\ ~ret.threw
              /\ ok \cup ko = 1..n
              /\ ok \cap ko = {}
              /\ Len(ret.successful) + Len(ret.failed) = n
              /\ ret.op # "uploadMultiple"
                    => /\ ret.total = n
                       /\ ret.successCount = Len(ret.successful)
                       /\ ret.failureCount = Len(ret.failed)
                       /\ ret.successCount + ret.failureCount = ret.total
                       /\ \A j \in 1..Len(ret.successful) :
                             ret.successful[j].id = ret.input[ret.successful[j].at].id
                       /\ \A j \in 1..Len(ret.failed) :
                             ret.failed[j].id = ret.input[ret.failed[j].at].id

\* the first item failed and the second one was still processed and succeeded
C18_Witness ==
    /\ ret.op \in BatchOps
    /\ Len(ret.input) = 2
    /\ ret.failed # <<>> /\ ret.failed[1].at = 1
    /\ ret.successful # <<>> /\ ret.successful[1].at = 2

\* C19: softDelete(id) on a File row that is already soft-deleted fails with
\* FileAlreadyDeletedException and leaves the row as it was.
C19_SoftDeleteTwiceIsAlreadyDeleted ==
    [][(ret'.op = "softDelete" /\ ret'.id \in DOMAIN files
          /\ files[ret'.id].deleted)
        => (ret'.err = "FileAlreadyDeleted" /\ files' = files)]_vars

\* ------------------------------------------------- AWSS3Strategy, by itself
S3Keys == {<<"a">>, <<"b">>, <<"d", "a">>}

\* get: the bytes, or the failure of GetObject (NoSuchKey)
S3Get(b, key) ==
    IF key \in DOMAIN b THEN [ok |-> TRUE, data |-> b[key]]
    ELSE [ok |-> FALSE, data |-> NoBuffer]

\* upload(file, filename); sendOk is whether the PutObject request succeeds
S3Upload(file, filename, sendOk) ==
    /\ bucket' = IF sendOk THEN S3UploadBucket(bucket, file, filename) ELSE bucket
    /\ ret' = RetLocal("upload", filename, sendOk,
                       IF sendOk THEN S3UploadResult(file, filename).path
                       ELSE <<>>, file)
    /\ UNCHANGED <<uploadPath, strategies, registeredAt, disk, files, folders,
                   closure, nextFileId, nextFolderId, procs>>

S3GetCall(key) ==
    /\ ret' = RetLocal("get", key, S3Get(bucket, key).ok, <<>>,
                       S3Get(bucket, key).data)
    /\ UNCHANGED <<uploadPath, strategies, registeredAt, disk, bucket, files,
                   folders, closure, nextFileId, nextFolderId, procs>>

\* delete(key): DeleteObject answers 204 whether or not the key exists, so
\* the result is {success: true} whenever the request itself goes through
S3Delete(key, sendOk) ==
    /\ bucket' = S3DeleteBucket(bucket, key, sendOk)
    /\ ret' = RetLocal("delete", key, S3DeleteSuccess(bucket, key, sendOk),
                       <<>>, NoBuffer)
    /\ UNCHANGED <<uploadPath, strategies, registeredAt, disk, files, folders,
                   closure, nextFileId, nextFolderId, procs>>

InitS3 ==
    /\ uploadPath = <<"uploads">>
    /\ strategies = initializeStrategies({"aws_s3"})
    /\ registeredAt = registeredAtOf(strategies)
    /\ disk = <<>>
    /\ bucket = <<>>
    /\ files = <<>>
    /\ folders = <<>>
    /\ closure = {}
    /\ nextFileId = 1
    /\ nextFolderId = 1
    /\ procs = <<>>
    /\ ret = RetLocal("init", <<>>, TRUE, <<>>, NoBuffer)

NextS3 ==
    \/ \E file \in Buffers, filename \in S3Keys, sendOk \in BOOLEAN :
          S3Upload(file, filename, sendOk)
    \/ \E key \in S3Keys : S3GetCall(key)
    \/ \E key \in S3Keys, sendOk \in BOOLEAN : S3Delete(key, sendOk)

SpecS3 == InitS3 /\ [][NextS3]_vars

\* C20: a backend's delete of an object that does not exist (never written,
\* or already deleted) returns success=false; in particular a second delete of
\* the same key right after a successful one returns success=false.
C20_DeleteOfAbsentObjectReportsFalse ==
    [][(ret'.op = "delete" /\ ret'.arg \notin DOMAIN bucket) => ~ret'.ok]_vars

\* ------------------------------------------- backend copy and move
MoveKeys == {<<"a">>, <<"b">>}

\* LocalStorageStrategy.copy: fs.copyFile from the full source path to the
\* full destination path; copyOk is whether mkdir / copyFile / stat succeed
\* when the source is there. Copying a file onto itself leaves it as it is.
LocalCopySucceeds(d, sourcePath, copyOk) ==
    getFullPath(sourcePath) \in DOMAIN d /\ copyOk

LocalCopyDisk(d, sourcePath, destinationPath, copyOk) ==
    IF LocalCopySucceeds(d, sourcePath, copyOk)
    THEN Put(d, getFullPath(destinationPath), d[getFullPath(sourcePath)])
    ELSE d

LocalCopyResult(d, sourcePath, destinationPath) ==
    [path |-> getFullPath(destinationPath), key |-> <<>>,
     size |-> d[getFullPath(sourcePath)].length]

\* AWSS3Strategy.copy: CopyObject, then HeadObject of the destination;
\* sendOk is whether both requests succeed when the source key is there
S3CopySucceeds(b, sourceKey, sendOk) == sourceKey \in DOMAIN b /\ sendOk

S3CopyBucket(b, sourceKey, destinationKey, sendOk) ==
    IF S3CopySucceeds(b, sourceKey, sendOk)
    THEN Put(b, destinationKey, b[sourceKey])
    ELSE b

S3CopyResult(b, sourceKey, destinationKey) ==
    [path |-> destinationKey, key |-> destinationKey,
     size |-> b[sourceKey].length]

\* a move in which a failed delete of the source fails the move
moveReturnsOnlyIfSourceDeleted(copied, deleted) == copied /\ deleted

\* move: the result of copy is returned whatever delete(source) answered;
\* only a throwing copy makes move throw
moveReturns(copied, deleted) == copied

RetMove(arg, ok, path, copied, deleted) ==
    [op |-> "move", arg |-> arg, ok |-> ok, path |-> path, data |-> NoBuffer,
     copied |-> copied, deleted |-> deleted]

LocalMove(sourcePath, destinationPath, copyOk, unlinkOk) ==
    LET copied == LocalCopySucceeds(disk, sourcePath, copyOk)
        d1 == LocalCopyDisk(disk, sourcePath, destinationPath, copyOk)
        deleted == copied /\ LocalDeleteSuccess(d1, sourcePath, unlinkOk)
        returns == moveReturns(copied, deleted)
    IN /\ disk' = IF copied THEN LocalDeleteDisk(d1, sourcePath, unlinkOk)
                  ELSE disk
       /\ ret' = RetMove(<<sourcePath, destinationPath>>, returns,
                         IF returns
                         THEN LocalCopyResult(disk, sourcePath,
                                              destinationPath).path
                         ELSE <<>>, copied, deleted)
       /\ UNCHANGED <<uploadPath, strategies, registeredAt, bucket, files,
                      folders, closure, nextFileId, nextFolderId, procs>>

S3Move(sourceKey, destinationKey, sendOk, deleteOk) ==
    LET copied == S3CopySucceeds(bucket, sourceKey, sendOk)
        b1 == S3CopyBucket(bucket, sourceKey, destinationKey, sendOk)
        deleted == copied /\ S3DeleteSuccess(b1, sourceKey, deleteOk)
        returns == moveReturns(copied, deleted)
    IN /\ bucket' = IF copied THEN S3DeleteBucket(b1, sourceKey, deleteOk)
                    ELSE bucket
       /\ ret' = RetMove(<<sourceKey, destinationKey>>, returns,
                         IF returns
                         THEN S3CopyResult(bucket, sourceKey,
                                           destinationKey).path
                         ELSE <<>>, copied, deleted)
       /\ UNCHANGED <<uploadPath, strategies, registeredAt, disk, files,
                      folders, closure, nextFileId, nextFolderId, procs>>

InitMove ==
    /\ uploadPath = <<"uploads">>
    /\ strategies \in {initializeStrategies({"local"}),
                       initializeStrategies({"aws_s3"})}
    /\ registeredAt = registeredAtOf(strategies)
    /\ disk = <<>>
    /\ bucket = <<>>
    /\ files = <<>>
    /\ folders = <<>>
    /\ closure = {}
    /\ nextFileId = 1
    /\ nextFolderId = 1
    /\ procs = <<>>
    /\ ret = RetLocal("init", <<>>, TRUE, <<>>, NoBuffer)

NextMove ==
    \/ \E file \in Buffers, filename \in MoveKeys :
          hasStrategy("local") /\ LocalUpload(file, filename, TRUE)
    \/ \E filepath \in MoveKeys :
          hasStrategy("local") /\ LocalGetCall(filepath)
    \/ \E s \in MoveKeys, t \in MoveKeys, copyOk \in BOOLEAN,
          unlinkOk \in BOOLEAN :
          hasStrategy("local") /\ LocalMove(s, t, copyOk, unlinkOk)
    \/ \E file \in Buffers, filename \in MoveKeys :
          hasStrategy("aws_s3") /\ S3Upload(file, filename, TRUE)
    \/ \E key \in MoveKeys : hasStrategy("aws_s3") /\ S3GetCall(key)
    \/ \E s \in MoveKeys, t \in MoveKeys, sendOk \in BOOLEAN,
          deleteOk \in BOOLEAN :
          hasStrategy("aws_s3") /\ S3Move(s, t, sendOk, deleteOk)

SpecMove == InitMove /\ [][NextMove]_vars

\* get(key) of the configured backend, over a disk and a bucket
BackendGet(d, b, key) ==
    IF hasStrategy("local") THEN LocalGet(d, key) ELSE S3Get(b, key)

\* C21: whenever move(source, dest) returns for a source that holds an
\* object, get(dest) afterwards yields the bytes the source held, and for
\* dest # source get(source) afterwards fails
C21_MoveThenGetYieldsSourceBytes ==
    [][(ret'.op = "move" /\ ret'.ok
        /\ BackendGet(disk, bucket, ret'.arg[1]).ok)
       => /\ BackendGet(disk', bucket', ret'.arg[2]).ok
          /\ BackendGet(disk', bucket', ret'.arg[2]).data
                = BackendGet(disk, bucket, ret'.arg[1]).data
          /\ (ret'.arg[1] # ret'.arg[2]
                => ~BackendGet(disk', bucket', ret'.arg[1]).ok)]_vars

\* C21, first half only: after a returned move get(dest) yields the bytes
C21_MoveThenGetDest ==
    [][(ret'.op = "move" /\ ret'.ok
        /\ BackendGet(disk, bucket, ret'.arg[1]).ok)
       => /\ BackendGet(disk', bucket', ret'.arg[2]).ok
          /\ BackendGet(disk', bucket', ret'.arg[2]).data
                = BackendGet(disk, bucket, ret'.arg[1]).data]_vars

\* C22: a move whose copy succeeded and whose delete of the source failed
\* returns the destination's result, and the object is then both at the
\* destination and at the source
C22_MoveReturnsDestWhenDeleteFails ==
    [][(ret'.op = "move" /\ ret'.copied /\ ~ret'.deleted)
       => /\ ret'.ok
          /\ ret'.path = (IF hasStrategy("local")
                          THEN getFullPath(ret'.arg[2]) ELSE ret'.arg[2])
          /\ BackendGet(disk', bucket', ret'.arg[2]).ok
          /\ BackendGet(disk', bucket', ret'.arg[2]).data
                = BackendGet(disk, bucket, ret'.arg[1]).data
          /\ BackendGet(disk', bucket', ret'.arg[1]).ok]_vars

C22_Witness ==
    /\ ret.op = "move" /\ ret.copied /\ ~ret.deleted /\ ret.ok
    /\ ret.arg[1] # ret.arg[2]
    /\ BackendGet(disk, bucket, ret.arg[1]).ok
    /\ BackendGet(disk, bucket, ret.arg[2]).ok

\* C23: the error uploadFile raises names its kind: an upload into a folder
\* that does not exist raises FolderNotFound, an upload to a backend kind
\* that is not registered raises StorageNotConfigured, and only a failed
\* backend write raises StorageOperation
C23_UploadErrorNamesItsKind ==
    [][ret'.op = "uploadFile"
       => /\ ret'.cause = "FolderNotFound" => ret'.err = "FolderNotFound"
          /\ ret'.cause = "StrategyNotFound"
                => ret'.err = "StorageNotConfigured"
          /\ ret'.cause = "BackendWrite" => ret'.err = "StorageOperation"]_vars

\* ------------------------------------------- FolderService.getAncestors
MaxAncFolders == 3

\* getAncestors: findById, then the rows findAncestors returns, in the
\* order the database returns them
GetAncestors(folderId, ord) ==
    /\ ret' = IF FolderFindOne(folders, folderId)
              THEN Ret("getAncestors", folderId, NullId, "none", "none",
                       "none", "", <<>>,
                       InOrder(ord, findAncestors(folders, closure, folderId)))
              ELSE RetFolder("getAncestors", folderId, NullId,
                             "FolderNotFound")
    /\ UNCHANGED <<uploadPath, strategies, registeredAt, disk, bucket, files,
                   folders, closure, nextFileId, nextFolderId, procs>>

NextAnc ==
    \/ \E name \in FolderNames, parentId \in 0..MaxAncFolders,
          ord \in RowOrders(MaxAncFolders) :
          FolderCreate(name, parentId, ord, MaxAncFolders)
    \/ \E id \in 1..MaxAncFolders, ord \in RowOrders(MaxAncFolders) :
          GetAncestors(id, ord)

SpecAnc == InitPath /\ [][NextAnc]_vars

ProperAncestors(fs, id) ==
    {a \in DOMAIN fs : a # id /\ InSubtree(fs, a, id)}

\* C24: getAncestors(id) returns exactly the proper ancestors of the folder,
\* the folder itself not among them: for root Docs and its child Reports,
\* getAncestors(Reports) is the one-element list of Docs
C24_GetAncestorsReturnsProperAncestors ==
    (ret.op = "getAncestors" /\ ret.err = "none")
       => /\ Range(ret.out) = ProperAncestors(folders, ret.id)
          /\ Len(ret.out) = Cardinality(ProperAncestors(folders, ret.id))

\* the folders whose parent chain reaches id, id among them
SubtreeOf(fs, id) == {f \in DOMAIN fs : InSubtree(fs, id, f)}

\* C25: a forced hardDelete(id) removes the folder rows of the whole subtree
\* of id, each exactly once, every folder after all of its children and id
\* last, and afterwards no folder of the subtree has a row
C25_ForceHardDeleteRemovesSubtreeBottomUp ==
    [][(ret'.op = "folderHardDelete" /\ ret'.force /\ ret'.err = "none")
       => LET sub == SubtreeOf(folders, ret'.id)
              removed == ret'.removed
          IN /\ Range(removed) = sub
             /\ Len(removed) = Cardinality(sub)
             /\ removed[Len(removed)] = ret'.id
             /\ \A i, j \in DOMAIN removed :
                   folders[removed[i]].parentId = removed[j] => i < j
             /\ sub \cap DOMAIN folders' = {}]_vars

\* a forced hardDelete has removed a subtree of three folders
C25_Witness ==
    /\ ret.op = "folderHardDelete" /\ ret.force /\ ret.err = "none"
    /\ Len(ret.removed) = 3
    /\ ret.removed[3] = ret.id
    /\ folders = <<>>

\* the File rows after FolderService.softDelete(id) followed by restore(id)
FolderSoftDeleteThenRestore(fl, id) ==
    restoreFilesOfFolder(softDeleteFilesOfFolder(fl, id), id)

\* C26: for every folder that softDelete accepts, softDelete followed by
\* restore leaves every File of the folder in the deletion state it had
\* before; a File that was soft-deleted on its own stays soft-deleted
C26_FolderSoftDeleteRestoreRoundTrip ==
    \A id \in DOMAIN folders :
       FolderFindOne(folders, id)
          => \A i \in FilesOfFolder(files, id) :
                FolderSoftDeleteThenRestore(files, id)[i].deleted
                   = files[i].deleted

\* ------------------------------------------- soft delete with a deleter
Deleters == {"", "alice", "bob"}

NextDeleter ==
    \/ \E file \in Buffers, folderId \in 0..MaxFolders :
          UploadFile(file, [filename |-> <<>>, folderId |-> folderId,
                            storageType |-> ""], TRUE)
    \/ \E parentId \in 0..MaxFolders :
          FolderCreate("Docs", parentId, [i \in 1..MaxFolders |-> i], MaxFolders)
    \/ \E id \in 1..MaxFiles, deletedBy \in Deleters :
          FileSoftDeleteBy(id, deletedBy)
    \/ \E id \in 1..MaxFolders, deletedBy \in Deleters :
          FolderSoftDeleteBy(id, deletedBy)
    \/ \E id \in 1..MaxFiles : FileRestore(id)
    \/ \E id \in 1..MaxFolders : FolderRestore(id)

SpecDeleter == InitTree /\ [][NextDeleter]_vars

\* C27: after softDelete(id, deletedBy) of a File or of a Folder with a
\* deleter identity, the persisted row (deleted rows included) is marked
\* deleted and its deletedBy is that identity
C27_SoftDeletePersistsDeleter ==
    [][/\ (ret'.op = "softDelete" /\ ret'.err = "none" /\ ret'.out # <<>>)
          => /\ FileFindOneWithDeleted(files', ret'.id)
             /\ files'[ret'.id].deleted
             /\ files'[ret'.id].deletedBy = ret'.out[1]
       /\ (ret'.op = "folderSoftDelete" /\ ret'.err = "none"
           /\ ret'.out # <<>>)
          => /\ FolderFindOneWithDeleted(folders', ret'.id)
             /\ folders'[ret'.id].deleted
             /\ folders'[ret'.id].deletedBy = ret'.out[1]]_vars

\* C27 for folders alone
C27_FolderSoftDeletePersistsDeleter ==
    [][(ret'.op = "folderSoftDelete" /\ ret'.err = "none" /\ ret'.out # <<>>)
          => /\ folders'[ret'.id].deleted
             /\ folders'[ret'.id].deletedBy = ret'.out[1]]_vars

\* ------------------------------------------- uploads under a given name
\* uploadDto.filename: not given, or a name of the caller's choice
UploadNames == {<<>>, <<"report">>}

NextNames ==
    \/ \E file \in Buffers, filename \in UploadNames, writeOk \in BOOLEAN :
          UploadFile(file, [filename |-> filename, folderId |-> NullId,
                            storageType |-> ""], writeOk)
    \/ \E items \in BatchUploads, filename \in UploadNames :
          UploadMultiple(items, [filename |-> filename, folderId |-> NullId,
                                 storageType |-> ""])

SpecNames == InitBatch /\ [][NextNames]_vars

\* C28: in every state reached by uploadFile and uploadMultiple, with or
\* without a caller-supplied filename, no two File rows of the same backend
\* reference the same physical path
C28_NoTwoRowsShareAPath ==
    \A i, j \in DOMAIN files :
       (i # j /\ files[i].storageType = files[j].storageType)
          => files[i].path # files[j].path

\* C28 for uploadMultiple alone: one call never leaves two rows on one path
C28_UploadMultipleRowsDistinct ==
    [][(ret'.op = "uploadMultiple" /\ files = <<>>)
       => \A i, j \in DOMAIN files' :
             i # j => files'[i].path # files'[j].path]_vars

\* ------------------------------------------- interleaved statistics updates
\* Two requests run FileService operations at the same time; each operation
\* is cut at the awaits around updateFolderStats: the work up to the saved
\* (or removed) row, the statistics query, the folder update.
MaxStatFiles == 2
StatFolder == 1

IdleProc == [pc |-> "idle", op |-> "", folderId |-> NullId, stats |-> <<0, 0>>]

\* uploadFile up to fileRepository.save (line 205)
StatsUploadBegin(p, file) ==
    LET dto == [filename |-> <<>>, folderId |-> StatFolder, storageType |-> ""]
        filename == uploadFilename(dto)
        result == strategyUploadResult("local", file, filename)
        row == [name |-> filename, path |-> result.path, size |-> result.size,
                storageType |-> "local", storageKey |-> result.key,
                folderId |-> dto.folderId, deleted |-> FALSE,
                deletedBy |-> ""]
    IN /\ procs[p].pc = "idle"
       /\ uploadSavesRow(dto, TRUE)
       /\ nextFileId <= MaxStatFiles
       /\ disk' = LocalUploadDisk(disk, file, filename)
       /\ files' = Put(files, nextFileId, row)
       /\ nextFileId' = nextFileId + 1
       /\ procs' = [procs EXCEPT ![p] = [pc |-> "query", op |-> "uploadFile",
                                         folderId |-> dto.folderId,
                                         stats |-> <<0, 0>>]]
       /\ UNCHANGED <<uploadPath, strategies, registeredAt, bucket, folders,
                      closure, nextFolderId, ret>>

\* hardDelete up to fileRepository.remove (line 411)
StatsHardDeleteBegin(p, id) ==
    /\ procs[p].pc = "idle"
    /\ FileFindOneWithDeleted(files, id)
    /\ files[id].folderId # NullId
    /\ disk' = LocalDeleteDisk(disk, hardDeleteKey(files[id]), TRUE)
    /\ files' = Drop(files, id)
    /\ procs' = [procs EXCEPT ![p] = [pc |-> "query", op |-> "hardDelete",
                                      folderId |-> files[id].folderId,
                                      stats |-> <<0, 0>>]]
    /\ UNCHANGED <<uploadPath, strategies, registeredAt, bucket, folders,
                   closure, nextFileId, nextFolderId, ret>>

\* updateFolderStats, lines 589-595: the query
StatsQuery(p) ==
    /\ procs[p].pc = "query"
    /\ procs' = [procs EXCEPT ![p].pc = "update",
                              ![p].stats = folderStatsQuery(files,
                                                            procs[p].folderId)]
    /\ UNCHANGED <<uploadPath, strategies, registeredAt, disk, bucket, files,
                   folders, closure, nextFileId, nextFolderId, ret>>

\* updateFolderStats, lines 597-600: the update, after which the operation
\* returns
StatsUpdate(p) ==
    /\ procs[p].pc = "update"
    /\ folders' = folderStatsUpdate(folders, procs[p].folderId, procs[p].stats)
    /\ procs' = [procs EXCEPT ![p] = IdleProc]
    /\ ret' = RetFolder(procs[p].op, NullId, procs[p].folderId, "none")
    /\ UNCHANGED <<uploadPath, strategies, registeredAt, disk, bucket, files,
                   closure, nextFileId, nextFolderId>>

InitStats ==
    /\ uploadPath = <<"uploads">>
    /\ strategies = initializeStrategies({"local"})
    /\ registeredAt = registeredAtOf(strategies)
    /\ disk = <<>>
    /\ bucket = <<>>
    /\ files = <<>>
    /\ folders = <<>>
    /\ closure = {}
    /\ nextFileId = 1
    /\ nextFolderId = 1
    /\ procs = [p \in Procs |-> IdleProc]
    /\ ret = Ret("init", NullId, NullId, "none", "none", "none", "", <<>>, <<>>)

NextStats ==
    \/ FolderCreate("Docs", NullId, [i \in 1..StatFolder |-> i], StatFolder)
    \/ \E p \in Procs, file \in Buffers : StatsUploadBegin(p, file)
    \/ \E p \in Procs, id \in 1..MaxStatFiles : StatsHardDeleteBegin(p, id)
    \/ \E p \in Procs : StatsQuery(p)
    \/ \E p \in Procs : StatsUpdate(p)

SpecStats == InitStats /\ [][NextStats]_vars

\* C29: whenever every uploadFile and hardDelete that recomputes the
\* folder's statistics has completed, the folder's cached fileCount and
\* totalSize are the count and the size sum of its non-deleted Files
C29_StatsCorrectWhenAllComplete ==
    (\A p \in Procs : procs[p].pc = "idle")
       => \A f \in DOMAIN folders :
             <<folders[f].fileCount, folders[f].totalSize>>
                = folderStatsQuery(files, f)

\* no folder is reached from its own parent by following parentId
ParentAcyclic(fs) ==
    \A f \in DOMAIN fs :
       fs[f].parentId = NullId \/ ~InSubtree(fs, f, fs[f].parentId)

\* the folders a call updateFolderPath(id) saves a path for
PathSavedFor(fs, cl, id) ==
    {id} \cup updateFolderPathCalls(fs, cl, {id}, Cardinality(DOMAIN fs))

\* C30: on a forest whose parent relation is acyclic, the updateFolderPath
\* that create and move run returns, and it has saved a path for the
\* starting folder and for every folder below it
C30_UpdateFolderPathTerminatesAndCoversSubtree ==
    [][(ret'.op \in {"create", "move"} /\ ret'.err \in {"none", "NoReturn"}
        /\ ParentAcyclic(folders'))
       => /\ ret'.err = "none"
          /\ SubtreeOf(folders', ret'.id)
                \subseteq PathSavedFor(folders', closure', ret'.id)]_vars

\* the termination half of C30, for every folder findById returns
C30_UpdateFolderPathTerminates ==
    ParentAcyclic(folders)
       => \A id \in DOMAIN folders :
             ~updateFolderPathDiverges(folders, closure, id)

\* the coverage half of C30 for the folders that are not soft-deleted
C30_UpdateFolderPathCoversLiveSubtree ==
    [][(ret'.op \in {"create", "move"} /\ ret'.err = "none")
       => {d \in SubtreeOf(folders', ret'.id) : ~folders'[d].deleted}
             \subseteq PathSavedFor(folders', closure', ret'.id)]_vars
====
